---- MODULE Spec2Model ----
(***************************************************************************)
(* Model of drivers/trusty/trusty-log.c: the consumer of the Trusty log    *)
(* ring buffer (struct log_rb: sz, put, alloc, data[]), its line           *)
(* assembler log_read_line, the drain loop trusty_dump_logs and the two    *)
(* notifier callbacks that run it (trusty_log_call_notify under the        *)
(* spinlock, trusty_log_panic_notify without it).                          *)
(*                                                                         *)
(* The secure side (the producer) is the environment.  Counters are u32 in *)
(* the source; the model keeps the arithmetic and narrows the width to     *)
(* CtrBits bits, so that wraparound is reachable.                          *)
(***************************************************************************)
EXTENDS Integers, Sequences, FiniteSets, TLC

(* ------------------------------ bounds -------------------------------- *)
\* width in bits of the model's counters (32 in the source)
CtrBits == 4
\* the capacities log->sz the producer may publish are 0..MaxSz
MaxSz == 3
\* size of line_buffer in the model (TRUSTY_LINE_BUFFER_SIZE, 256 in the source)
LineBufferSize == 3
\* the producer reserves at most MaxBytes bytes in a behaviour
MaxBytes == 3
\* the producer reserves at most MaxRes bytes at a time
MaxRes == 2
\* lines per window of the rate limiter in the model (100 in the source)
Burst == 2
\* length of the rate limiter's window in ticks (1 * HZ in the source)
Interval == 2
\* the clock stops after MaxTime ticks
MaxTime == 3
\* bytes the producer reserves in the specifications with two threads
RaceBytes == 2
\* bytes of data[] that fit the pages shared with the secure side
\* (TRUSTY_LOG_SIZE less the header of struct log_rb in the source)
LogSize == 2

(* --------------------------- integer types ---------------------------- *)
RECURSIVE Pow2(_)
Pow2(n) == IF n = 0 THEN 1 ELSE 2 * Pow2(n - 1)

Mod == Pow2(CtrBits)
Half == Pow2(CtrBits - 1)

\* conversion to u32: the value modulo 2^width
U32(x) == x % Mod

\* conversion to int (two's complement, the kernel builds with
\* -fno-strict-overflow so signed arithmetic wraps)
Int32(x) == LET u == x % Mod IN IF u >= Half THEN u - Mod ELSE u

RECURSIVE BitAnd(_, _)
BitAnd(a, b) ==
    IF a = 0 \/ b = 0 THEN 0
    ELSE (a % 2) * (b % 2) + 2 * BitAnd(a \div 2, b \div 2)

Min(a, b) == IF a < b THEN a ELSE b

\* is_power_of_2() of include/linux/log2.h: n != 0 && (n & (n - 1)) == 0
is_power_of_2(n) == n # 0 /\ BitAnd(n, n - 1) = 0

(* ------------------------------- bytes -------------------------------- *)
NUL == "nul"
NL == "nl"
\* the bytes the producer writes
ProducerBytes == {NL, "a"}
Bytes == ProducerBytes \cup {NUL}

(* ------------------------------ threads ------------------------------- *)
\* the threads that get the call notification (trusty_log_call_notify)
Callers == {"cpu0", "cpu1"}
\* the thread that runs the panic notifier chain
Panic == "panic"
Drains == Callers \cup {Panic}

VARIABLES
    sz,           \* log->sz
    put,          \* log->put
    alloc,        \* log->alloc
    data,         \* log->data[], the cells 0..sz-1
    base,         \* value of the counters at attach (ghost)
    stream,       \* the bytes the producer has written, in order (ghost)
    lock,         \* s->lock: "free" or the caller that holds it
    sget,         \* s->get
    line_buffer,  \* s->line_buffer, the cells 0..LineBufferSize-1
    rl,           \* trusty_log_rate_limit
    jiffies,      \* the clock
    pc,           \* where each thread is
    loc,          \* the locals of trusty_dump_logs and log_read_line
    panicked,     \* the panic notifier chain has been called
    upto,         \* how far the stream has been offered to the sink (ghost)
    lost,         \* an overflow has been detected since attach (ghost)
    win,          \* start of the current window, lines printed in it, and
                  \* the positions that refused lines covered (ghost)
    ev,           \* what the last step did to the outside (ghost)
    dev           \* the platform device: where probe or remove is, and what
                  \* they hold

ring == <<sz, put, alloc, data, base, stream>>
vars == <<sz, put, alloc, data, base, stream, lock, sget, line_buffer, rl,
          jiffies, pc, loc, panicked, upto, lost, win, ev, dev>>

\* locals of a thread that is not inside trusty_dump_logs (a local that is
\* dead holds 0); overflows, lines and checked_sz are ghosts: the overflows
\* detected and the lines offered to the rate limiter by this call, counted
\* up to 2, and the value of log->sz that passed the check of line 74
NoLocals ==
    [get |-> 0, put |-> 0, read_chars |-> 0, overflows |-> 0, lines |-> 0,
     checked_sz |-> 0,
     rget |-> 0, i |-> 0, c |-> NUL, max_to_read |-> 0, mask |-> 0]

\* the step of thread d did k: "warn" (WARN_ON), "err" (dev_err "log
\* overflow."), "info" (dev_info of a line), "drop" (a line the rate limiter
\* refused), "version" (dev_info of the panic notifier), "copy"/"term" (a
\* write to line_buffer), "ok"/"done" (the notifier returned NOTIFY_OK /
\* NOTIFY_DONE); get and n are the cursor and read_chars of the line, txt
\* the text printed, rel how the line lies to what was offered before ("next",
\* "gap", "again"), di and li the index used on data[] and line_buffer[]
Event(k, d, g, n, txt, rel, di, li) ==
    [k |-> k, d |-> d, get |-> g, n |-> n, txt |-> txt, rel |-> rel,
     di |-> di, li |-> li]

Did(k, d) == Event(k, d, 0, 0, <<>>, "none", -1, -1)

NoEvent == Did("none", "none")

(* ------------------------- pure computations -------------------------- *)
\* line 57-58: min_t(size_t, put - get, sizeof(s->line_buffer) - 1), put and
\* get being int: the difference wraps as int and is then converted to
\* size_t, which turns a negative difference into a huge value
max_to_read_whole_buffer(p, g) ==
    LET d == Int32(p - g)
    IN  IF d < 0 THEN LineBufferSize ELSE Min(d, LineBufferSize)
max_to_read_no_wrap(p, g) ==
    IF p - g < 0 THEN LineBufferSize - 1 ELSE Min(p - g, LineBufferSize - 1)
max_to_read_of(p, g) ==
    LET d == Int32(p - g)
    IN  IF d < 0 THEN LineBufferSize - 1 ELSE Min(d, LineBufferSize - 1)

\* line 59: size_t mask = log->sz - 1 (u32 arithmetic)
mask_is_size(s) == U32(s)
mask_of(s) == U32(s - 1)

\* line 62: the index get & mask (get converted to size_t by sign extension,
\* of which the mask keeps low bits only)
data_index(g, m) == BitAnd(U32(g), m)

\* line 61: the loop condition of log_read_line
copy_past_newline(l) == l.i < l.max_to_read
copy_more(l) == l.i < l.max_to_read /\ l.c # NL

\* line 74: the capacity check of trusty_dump_logs
capacity_nonzero(s) == s # 0
capacity_ok(s) == is_power_of_2(s)

\* line 100: alloc - get > log->sz on u32
overflowed(a, g, s) == U32(a - g) > s

\* line 102: get = alloc - log->sz on u32
resync_to_alloc(a, s) == U32(a)
resync_off_by_one(a, s) == U32(a - s + 1)
resync(a, s) == U32(a - s)

\* line 109: get += read_chars on u32
advance_by_one(g, n) == U32(g + 1)
advance(g, n) == U32(g + n)

\* what "%s" prints of a buffer: the bytes before the first NUL
RECURSIVE c_string(_, _)
c_string(buf, k) ==
    IF k \notin DOMAIN buf \/ buf[k] = NUL THEN <<>>
    ELSE <<buf[k]>> \o c_string(buf, k + 1)

\* a byte read from data[idx]; outside the array any byte may come back
data_at(idx) == IF idx \in DOMAIN data THEN {data[idx]} ELSE Bytes

(* --------------------------- rate limiter ----------------------------- *)
\* __ratelimit(&trusty_log_rate_limit): the window restarts once the clock is
\* past it, and a window lets Burst calls through
ratelimit_window(r, t) ==
    IF t > r.begin + Interval THEN [begin |-> t, printed |-> 0] ELSE r

ratelimit_allows(r, t) == ratelimit_window(r, t).printed < Burst

ratelimit_after(r, t) ==
    LET w == ratelimit_window(r, t)
    IN  IF w.printed < Burst THEN [w EXCEPT !.printed = @ + 1] ELSE w

\* line 106: the line is printed when __ratelimit() says so
print_always(r, t) == TRUE
may_print(r, t) == ratelimit_allows(r, t)


(* ------------------------- the platform device ----------------------- *)
\* before trusty_log_probe: nothing allocated, shared or registered.  at is
\* the place probe or remove has reached, state and pages what became of
\* the kzalloc'ed state and of the ring's pages, shared and added whether the
\* secure side has the pages shared and registered as its log, rm and
\* reclaim the outcome of the last SMC_SC_SHARED_LOG_RM and
\* trusty_reclaim_memory
Unbound ==
    [at |-> "unbound", state |-> "none", pages |-> "none",
     shared |-> FALSE, added |-> FALSE,
     call_notifier |-> FALSE, panic_notifier |-> FALSE,
     rm |-> "none", reclaim |-> "none"]

\* after a trusty_log_probe that returned 0 (line 242-244)
Bound ==
    [at |-> "bound", state |-> "held", pages |-> "held",
     shared |-> TRUE, added |-> TRUE,
     call_notifier |-> TRUE, panic_notifier |-> TRUE,
     rm |-> "none", reclaim |-> "none"]

(* ------------------------------- Init --------------------------------- *)
\* the counters at the start of a run: 0 (line 188 and the zeroed pages of
\* line 189), or a value shortly before the wraparound, which stands for the
\* state after a long run in which every byte written was drained
StartValues == {0, Mod - 3}

Init ==
    /\ sz \in 0..MaxSz
    /\ base \in StartValues
    /\ put = base
    /\ alloc = base
    /\ data = [k \in 0..(sz - 1) |-> IF base = 0 THEN NUL ELSE "a"]
    /\ stream = <<>>
    /\ lock = "free"
    /\ sget = base
    /\ line_buffer = [k \in 0..(LineBufferSize - 1) |-> NUL]
    /\ rl = [begin |-> 0, printed |-> 0]
    /\ jiffies = 0
    /\ pc = [d \in Drains |-> "idle"]
    /\ loc = [d \in Drains |-> NoLocals]
    /\ panicked = FALSE
    /\ upto = 0
    /\ lost = FALSE
    /\ win = [start |-> 0, printed |-> 0, denied |-> {}]
    /\ ev = NoEvent
    /\ dev = Bound

(* ------------------------ producer (secure side) ---------------------- *)
\* bytes reserved and committed since attach
reserved == U32(alloc - base)
committed == U32(put - base)

\* the producer reserves n bytes: alloc moves first
Reserve(n) ==
    /\ sz > 0
    /\ Len(stream) = reserved
    /\ reserved + n <= MaxBytes
    /\ alloc' = U32(alloc + n)
    /\ ev' = NoEvent
    /\ UNCHANGED <<sz, put, data, base, stream>>
    /\ UNCHANGED <<lock, sget, line_buffer, rl, jiffies, pc, loc, panicked, upto, lost, win>>
    /\ UNCHANGED dev

\* the producer writes the next reserved byte
WriteByte(b) ==
    /\ Len(stream) < reserved
    /\ data' = [data EXCEPT ![BitAnd(U32(base + Len(stream)), sz - 1)] = b]
    /\ stream' = Append(stream, b)
    /\ ev' = NoEvent
    /\ UNCHANGED <<sz, put, alloc, base>>
    /\ UNCHANGED <<lock, sget, line_buffer, rl, jiffies, pc, loc, panicked, upto, lost, win>>
    /\ UNCHANGED dev

\* the producer commits what it has written: put = alloc
Commit ==
    /\ Len(stream) = reserved
    /\ put # alloc
    /\ put' = alloc
    /\ ev' = NoEvent
    /\ UNCHANGED <<sz, alloc, data, base, stream>>
    /\ UNCHANGED <<lock, sget, line_buffer, rl, jiffies, pc, loc, panicked, upto, lost, win>>
    /\ UNCHANGED dev

(* ------------------------- trusty_dump_logs --------------------------- *)
InDump == {"enter", "loop", "copy", "check", "print", "store"}

\* the function returns: the cooperative caller unlocks and returns
\* NOTIFY_OK (line 126-127), the panic notifier returns NOTIFY_OK (line 143)
Return(d) ==
    /\ pc' = [pc EXCEPT ![d] = "idle"]
    /\ loc' = [loc EXCEPT ![d] = NoLocals]
    /\ lock' = IF d \in Callers THEN "free" ELSE lock

\* line 70-84: the capacity check, then get = s->get
DumpEnter(d) ==
    /\ pc[d] = "enter"
    /\ IF ~capacity_ok(sz)
       THEN /\ ev' = Did("warn", d)
            /\ Return(d)
       ELSE /\ loc' = [loc EXCEPT ![d].get = sget, ![d].checked_sz = sz]
            /\ pc' = [pc EXCEPT ![d] = "loop"]
            /\ ev' = NoEvent
            /\ UNCHANGED lock
    /\ UNCHANGED <<sget, line_buffer, rl, jiffies, panicked, upto, lost, win>>
    /\ UNCHANGED ring
    /\ UNCHANGED dev

\* line 85: put = log->put and the loop test; on entry to the body,
\* line 90 and 54-59: the call of log_read_line and its initialisations
DumpLoop(d) ==
    /\ pc[d] = "loop"
    /\ IF put = loc[d].get
       THEN /\ loc' = [loc EXCEPT ![d].put = put]
            /\ pc' = [pc EXCEPT ![d] = "store"]
       ELSE /\ loc' = [loc EXCEPT ![d].put = put,
                                  ![d].rget = Int32(loc[d].get),
                                  ![d].i = 0,
                                  ![d].c = NUL,
                                  ![d].max_to_read =
                                      max_to_read_of(Int32(put), Int32(loc[d].get)),
                                  ![d].mask = mask_of(sz)]
            /\ pc' = [pc EXCEPT ![d] = "copy"]
    /\ ev' = NoEvent
    /\ UNCHANGED <<lock, sget, line_buffer, rl, jiffies, panicked, upto, lost, win>>
    /\ UNCHANGED ring
    /\ UNCHANGED dev

\* line 61-62: one round of the copy loop
ReadLineCopy(d) ==
    /\ pc[d] = "copy"
    /\ copy_more(loc[d])
    /\ LET idx == data_index(loc[d].rget, loc[d].mask)
           i == loc[d].i
       IN  \E b \in data_at(idx) :
             /\ line_buffer' = IF i \in DOMAIN line_buffer
                               THEN [line_buffer EXCEPT ![i] = b]
                               ELSE line_buffer
             /\ loc' = [loc EXCEPT ![d].c = b,
                                   ![d].i = i + 1,
                                   ![d].rget = Int32(loc[d].rget + 1)]
             /\ ev' = Event("copy", d, 0, 0, <<>>, "none", idx, i)
    /\ UNCHANGED <<lock, sget, rl, jiffies, pc, panicked, upto, lost, win>>
    /\ UNCHANGED ring
    /\ UNCHANGED dev

\* line 63-65: the terminator, and the return of i into read_chars (the
\* locals of log_read_line die)
ReadLineEnd(d) ==
    /\ pc[d] = "copy"
    /\ ~copy_more(loc[d])
    /\ LET i == loc[d].i
       IN  /\ line_buffer' = IF i \in DOMAIN line_buffer
                             THEN [line_buffer EXCEPT ![i] = NUL]
                             ELSE line_buffer
           /\ loc' = [loc EXCEPT ![d].read_chars = i,
                                 ![d].rget = 0, ![d].i = 0, ![d].c = NUL,
                                 ![d].max_to_read = 0, ![d].mask = 0]
           /\ ev' = Event("term", d, 0, 0, <<>>, "none", -1, i)
    /\ pc' = [pc EXCEPT ![d] = "check"]
    /\ UNCHANGED <<lock, sget, rl, jiffies, panicked, upto, lost, win>>
    /\ UNCHANGED ring
    /\ UNCHANGED dev

\* line 94-104: alloc = log->alloc and the overflow check
DumpCheck(d) ==
    /\ pc[d] = "check"
    /\ IF overflowed(alloc, loc[d].get, sz)
       THEN /\ ev' = Event("err", d, loc[d].get, loc[d].read_chars, <<>>, "none", -1, -1)
            /\ loc' = [loc EXCEPT ![d].get = resync(alloc, sz),
                                  ![d].read_chars = 0,
                                  ![d].overflows = Min(@ + 1, 2)]
            /\ pc' = [pc EXCEPT ![d] = "loop"]
            /\ lost' = TRUE
       ELSE /\ pc' = [pc EXCEPT ![d] = "print"]
            /\ ev' = NoEvent
            /\ UNCHANGED <<loc, lost>>
    /\ UNCHANGED <<lock, sget, line_buffer, rl, jiffies, panicked, upto, win>>
    /\ UNCHANGED ring
    /\ UNCHANGED dev

\* where the line [g, g + n) lies to what was offered to the sink before
Relation(g) ==
    LET p == U32(g - base)
    IN  IF p = upto THEN "next" ELSE IF p > upto THEN "gap" ELSE "again"

\* line 106-109: the rate limiter, dev_info of the line, get += read_chars
DumpPrint(d) ==
    /\ pc[d] = "print"
    /\ ev' = Event(IF may_print(rl, jiffies) THEN "info" ELSE "drop",
                   d, loc[d].get, loc[d].read_chars, c_string(line_buffer, 0),
                   Relation(loc[d].get), -1, -1)
    /\ upto' = IF U32(loc[d].get - base) + loc[d].read_chars > upto
               THEN U32(loc[d].get - base) + loc[d].read_chars ELSE upto
    /\ rl' = ratelimit_after(rl, jiffies)
    /\ win' = LET w == IF jiffies > win.start + Interval
                       THEN [win EXCEPT !.start = jiffies, !.printed = 0]
                       ELSE win
                  p == U32(loc[d].get - base)
              IN  IF may_print(rl, jiffies)
                  THEN [w EXCEPT !.printed = Min(@ + 1, Burst + 1)]
                  ELSE [w EXCEPT !.denied =
                            @ \cup {U32(p + k) : k \in 0..(loc[d].read_chars - 1)}]
    /\ loc' = [loc EXCEPT ![d].get = advance(loc[d].get, loc[d].read_chars),
                          ![d].read_chars = 0,
                          ![d].lines = Min(@ + 1, 2)]
    /\ pc' = [pc EXCEPT ![d] = "loop"]
    /\ UNCHANGED <<lock, sget, line_buffer, jiffies, panicked, lost>>
    /\ UNCHANGED ring
    /\ UNCHANGED dev

\* line 111-112: s->get = get, and the return
DumpStore(d) ==
    /\ pc[d] = "store"
    /\ sget' = loc[d].get
    /\ Return(d)
    /\ ev' = Did("ok", d)
    /\ UNCHANGED <<line_buffer, rl, jiffies, panicked, upto, lost, win>>
    /\ UNCHANGED ring
    /\ UNCHANGED dev

(* ---------------------------- the triggers ---------------------------- *)
\* line 124: spin_lock_irqsave() gets the lock when nobody holds it
lock_not_checked(l) == TRUE
lock_available(l) == l = "free"

\* line 120-125: a call notification with action TRUSTY_CALL_RETURNED
CallNotifyReturned(d) ==
    /\ d \in Callers
    /\ dev.call_notifier
    /\ pc[d] = "idle"
    /\ lock_available(lock)
    /\ lock' = d
    /\ pc' = [pc EXCEPT ![d] = "enter"]
    /\ ev' = NoEvent
    /\ UNCHANGED <<sget, line_buffer, rl, jiffies, loc, panicked, upto, lost, win>>
    /\ UNCHANGED ring
    /\ UNCHANGED dev

\* line 120-121: a call notification with another action returns NOTIFY_DONE
CallNotifyOther(d) ==
    /\ d \in Callers
    /\ dev.call_notifier
    /\ pc[d] = "idle"
    /\ ev' = Did("done", d)
    /\ UNCHANGED <<lock, sget, line_buffer, rl, jiffies, pc, loc, panicked, upto, lost, win>>
    /\ UNCHANGED ring
    /\ UNCHANGED dev

\* line 135-142: the panic notifier is never held up by the lock
panic_takes_lock(l) == l = "free"
panic_may_enter(l) == TRUE

\* line 139-142: the panic notifier prints the version and calls the drain
PanicNotify ==
    /\ dev.panic_notifier
    /\ pc[Panic] = "idle"
    /\ ~panicked
    /\ panic_may_enter(lock)
    /\ panicked' = TRUE
    /\ ev' = Did("version", Panic)
    /\ pc' = [pc EXCEPT ![Panic] = "enter"]
    /\ UNCHANGED <<lock, sget, line_buffer, rl, jiffies, loc, upto, lost, win>>
    /\ UNCHANGED ring
    /\ UNCHANGED dev

\* the secure side writes n into log->sz; the pages stay what they are
SetSize(n) ==
    /\ sz' = n
    /\ ev' = NoEvent
    /\ UNCHANGED <<put, alloc, data, base, stream>>
    /\ UNCHANGED <<lock, sget, line_buffer, rl, jiffies, pc, loc, panicked, upto, lost, win>>
    /\ UNCHANGED dev

\* a tick of the clock
Tick ==
    /\ jiffies < MaxTime
    /\ jiffies' = jiffies + 1
    /\ ev' = NoEvent
    /\ UNCHANGED <<lock, sget, line_buffer, rl, pc, loc, panicked, upto, lost, win>>
    /\ UNCHANGED ring
    /\ UNCHANGED dev

(* ------------------- trusty_log_probe and _remove --------------------- *)
\* a step of probe or remove that changes the device only
DevStep(new) ==
    /\ dev' = new
    /\ ev' = NoEvent
    /\ UNCHANGED <<lock, sget, line_buffer, rl, jiffies, pc, loc, panicked, upto, lost, win>>
    /\ UNCHANGED ring

Outcome(ok) == IF ok THEN "ok" ELSE "failed"

\* kfree(s): pages that are still held are lost with the pointer to them
FreeState(at) ==
    [dev EXCEPT !.at = at, !.state = "freed",
                !.pages = IF @ = "held" THEN "leaked" ELSE @]

\* line 176-177: trusty_supports_logging
ProbeSupports(ok) ==
    /\ dev.at = "unbound"
    /\ DevStep([dev EXCEPT !.at = IF ok THEN "kzalloc" ELSE "returned"])

\* line 179-183: kzalloc of the state
ProbeAllocState(ok) ==
    /\ dev.at = "kzalloc"
    /\ DevStep(IF ok THEN [dev EXCEPT !.at = "alloc_pages", !.state = "held"]
                     ELSE [dev EXCEPT !.at = "returned"])

\* line 185-194: spin_lock_init, s->get = 0, alloc_pages
ProbeAllocPages(ok) ==
    /\ dev.at = "alloc_pages"
    /\ dev' = IF ok THEN [dev EXCEPT !.at = "share", !.pages = "held"]
                    ELSE [dev EXCEPT !.at = "error_alloc_log"]
    /\ lock' = "free"
    /\ sget' = 0
    /\ ev' = NoEvent
    /\ UNCHANGED <<line_buffer, rl, jiffies, pc, loc, panicked, upto, lost, win>>
    /\ UNCHANGED ring

\* line 195-204: trusty_share_memory_compat
ProbeShare(ok) ==
    /\ dev.at = "share"
    /\ DevStep(IF ok THEN [dev EXCEPT !.at = "log_add", !.shared = TRUE]
                     ELSE [dev EXCEPT !.at = "err_share_memory"])

\* line 206-215: SMC_SC_SHARED_LOG_ADD
ProbeLogAdd(ok) ==
    /\ dev.at = "log_add"
    /\ DevStep(IF ok THEN [dev EXCEPT !.at = "console", !.added = TRUE]
                     ELSE [dev EXCEPT !.at = "error_std_call"])

\* line 217-223: SMC_SC_SHARED_CONSOLE_CTL, whose failure is only reported
ProbeConsole(ok) ==
    /\ dev.at = "console"
    /\ DevStep([dev EXCEPT !.at = "call_notifier"])

\* line 225-232: trusty_call_notifier_register
ProbeCallNotifier(ok) ==
    /\ dev.at = "call_notifier"
    /\ DevStep(IF ok THEN [dev EXCEPT !.at = "panic_notifier",
                                       !.call_notifier = TRUE]
                     ELSE [dev EXCEPT !.at = "error_call_notifier"])

\* line 234-244: atomic_notifier_chain_register, and the return of 0
ProbePanicNotifier(ok) ==
    /\ dev.at = "panic_notifier"
    /\ DevStep(IF ok THEN [dev EXCEPT !.at = "bound", !.panic_notifier = TRUE]
                     ELSE [dev EXCEPT !.at = "error_panic_notifier"])

\* line 246-247: trusty_call_notifier_unregister, which waits for a running
\* callback
UnwindPanicNotifier ==
    /\ dev.at = "error_panic_notifier"
    /\ \A d \in Callers : pc[d] = "idle"
    /\ DevStep([dev EXCEPT !.at = "error_call_notifier",
                           !.call_notifier = FALSE])

\* line 248-250: SMC_SC_SHARED_LOG_RM, whose result is not looked at
UnwindCallNotifier(ok) ==
    /\ dev.at = "error_call_notifier"
    /\ DevStep([dev EXCEPT !.at = "error_std_call", !.rm = Outcome(ok),
                           !.added = IF ok THEN FALSE ELSE @])

\* line 251-259: trusty_reclaim_memory; the pages are freed if it succeeded
UnwindStdCall(ok) ==
    /\ dev.at = "error_std_call"
    /\ DevStep(IF ok THEN [dev EXCEPT !.at = "err_share_memory",
                                       !.reclaim = "ok", !.shared = FALSE]
                     ELSE [dev EXCEPT !.at = "error_alloc_log",
                                       !.reclaim = "failed"])

\* line 260-262: __free_pages
UnwindFreePages ==
    /\ dev.at = "err_share_memory"
    /\ DevStep([dev EXCEPT !.at = "error_alloc_log", !.pages = "freed"])

\* line 263-266: kfree(s) and the return of the error
UnwindFreeState ==
    /\ dev.at = "error_alloc_log"
    /\ DevStep(FreeState("returned"))

\* line 275-277: both notifiers are unregistered; the unregistration waits
\* for a running callback
RemoveUnregister ==
    /\ dev.at = "bound"
    /\ \A d \in Drains : pc[d] = "idle"
    /\ DevStep([dev EXCEPT !.at = "remove_log_rm", !.call_notifier = FALSE,
                           !.panic_notifier = FALSE])

\* line 279-285: SMC_SC_SHARED_LOG_RM, whose failure is only reported
RemoveLogRm(ok) ==
    /\ dev.at = "remove_log_rm"
    /\ DevStep([dev EXCEPT !.at = "remove_reclaim", !.rm = Outcome(ok),
                           !.added = IF ok THEN FALSE ELSE @])

\* line 286-289: trusty_reclaim_memory
RemoveReclaim(ok) ==
    /\ dev.at = "remove_reclaim"
    /\ DevStep(IF ok THEN [dev EXCEPT !.at = "remove_free",
                                       !.reclaim = "ok", !.shared = FALSE]
                     ELSE [dev EXCEPT !.at = "remove_kfree",
                                       !.reclaim = "failed"])

\* line 290-296: __free_pages
RemoveFreePages ==
    /\ dev.at = "remove_free"
    /\ DevStep([dev EXCEPT !.at = "remove_kfree", !.pages = "freed"])

\* line 297-299: kfree(s) and the return of 0
RemoveFreeState ==
    /\ dev.at = "remove_kfree"
    /\ DevStep(FreeState("removed"))

Probe ==
    \E ok \in BOOLEAN :
        \/ ProbeSupports(ok)
        \/ ProbeAllocState(ok)
        \/ ProbeAllocPages(ok)
        \/ ProbeShare(ok)
        \/ ProbeLogAdd(ok)
        \/ ProbeConsole(ok)
        \/ ProbeCallNotifier(ok)
        \/ ProbePanicNotifier(ok)
        \/ UnwindCallNotifier(ok)
        \/ UnwindStdCall(ok)
        \/ UnwindPanicNotifier
        \/ UnwindFreePages
        \/ UnwindFreeState

Remove ==
    \/ RemoveUnregister
    \/ \E ok \in BOOLEAN : RemoveLogRm(ok) \/ RemoveReclaim(ok)
    \/ RemoveFreePages
    \/ RemoveFreeState

(* --------------------------- specifications --------------------------- *)
Producer ==
    \/ \E n \in 1..MaxRes : Reserve(n)
    \/ \E b \in ProducerBytes : WriteByte(b)
    \/ Commit

Dump(d) ==
    \/ DumpEnter(d)
    \/ DumpLoop(d)
    \/ ReadLineCopy(d)
    \/ ReadLineEnd(d)
    \/ DumpCheck(d)
    \/ DumpPrint(d)
    \/ DumpStore(d)

\* the thread whose call notifications the serial specifications follow
Cpu0 == "cpu0"

\* the producer and the cooperative trigger on one thread: every drain is
\* serialised
Next ==
    \/ Producer
    \/ CallNotifyReturned(Cpu0)
    \/ CallNotifyOther(Cpu0)
    \/ Dump(Cpu0)

Spec == Init /\ [][Next]_vars

\* the drain runs with interrupts off and is never suspended: a thread
\* inside trusty_dump_logs keeps taking steps
FairSpec == Spec /\ WF_vars(Dump(Cpu0))

\* a producer of one line more than the rate limiter lets through in a
\* window, whose lines are empty: every byte it writes is a newline
LineProducer ==
    /\ Producer
    /\ (alloc' - base) % Mod <= Burst + 1
    /\ \A k \in DOMAIN stream' : stream'[k] = NL

\* the clock runs while that producer writes and both triggers drain; the
\* calls of the rate limiter are serial here: the cooperative caller takes no
\* step once the panic notifier has been called (panic() stops the other
\* CPUs before it runs the notifier chain)
TimedNext ==
    \/ LineProducer
    \/ ~panicked /\ CallNotifyReturned(Cpu0)
    \/ ~panicked /\ Dump(Cpu0)
    \/ PanicNotify
    \/ Dump(Panic)
    \/ Tick

TimedSpec == Init /\ [][TimedNext]_vars

\* the producer, as long as it stays within RaceBytes bytes
ShortProducer == Producer /\ (alloc' - base) % Mod <= RaceBytes

\* the cooperative trigger on two threads, which contend for s->lock
LockNext ==
    \/ ShortProducer
    \/ \E d \in Callers : CallNotifyReturned(d) \/ CallNotifyOther(d) \/ Dump(d)

LockSpec == Init /\ [][LockNext]_vars

\* the cooperative trigger on one thread and the panic notifier on another;
\* the secure side runs only while a thread has called into it, and the panic
\* notifier does not (lines 130-144), so the producer writes before the panic
PanicNext ==
    \/ ~panicked /\ ShortProducer
    \/ CallNotifyReturned(Cpu0)
    \/ Dump(Cpu0)
    \/ PanicNotify
    \/ Dump(Panic)

\* the counters start at 0 here
PanicInit == Init /\ base = 0

PanicSpec == PanicInit /\ [][PanicNext]_vars

\* a ring whose counters hold any values (the secure side owns the shared
\* memory and may publish anything), drained by the cooperative trigger
AdvCursors == {0, Half - 1, Mod - 3}

AdvInit ==
    /\ sz \in 0..MaxSz
    /\ base = 0
    /\ put \in 0..(Mod - 1)
    /\ alloc \in 0..(Mod - 1)
    /\ data \in [0..(sz - 1) -> ProducerBytes]
    /\ stream = <<>>
    /\ lock = "free"
    /\ sget \in AdvCursors
    /\ line_buffer = [k \in 0..(LineBufferSize - 1) |-> NUL]
    /\ rl = [begin |-> 0, printed |-> 0]
    /\ jiffies = 0
    /\ pc = [d \in Drains |-> "idle"]
    /\ loc = [d \in Drains |-> NoLocals]
    /\ panicked = FALSE
    /\ upto = 0
    /\ lost = FALSE
    /\ win = [start |-> 0, printed |-> 0, denied |-> {}]
    /\ ev = NoEvent
    /\ dev = Bound

AdvNext == CallNotifyReturned(Cpu0) \/ Dump(Cpu0)

AdvSpec == AdvInit /\ [][AdvNext]_vars

\* runs whose counters start at 0, shortly before the sign change of the int
\* parameters of log_read_line, and shortly before the wraparound of u32
WrapValues == {0, Half - 2, Mod - 2}

WrapInit ==
    /\ sz \in 0..MaxSz
    /\ base \in WrapValues
    /\ put = base
    /\ alloc = base
    /\ data = [k \in 0..(sz - 1) |-> NUL]
    /\ stream = <<>>
    /\ lock = "free"
    /\ sget = base
    /\ line_buffer = [k \in 0..(LineBufferSize - 1) |-> NUL]
    /\ rl = [begin |-> 0, printed |-> 0]
    /\ jiffies = 0
    /\ pc = [d \in Drains |-> "idle"]
    /\ loc = [d \in Drains |-> NoLocals]
    /\ panicked = FALSE
    /\ upto = 0
    /\ lost = FALSE
    /\ win = [start |-> 0, printed |-> 0, denied |-> {}]
    /\ ev = NoEvent
    /\ dev = Bound

\* the life of the device: probe, then the secure side writes to the ring it
\* was given and the cooperative trigger drains it, then remove
LifeInit ==
    /\ sz \in 0..MaxSz
    /\ base = 0
    /\ put = 0
    /\ alloc = 0
    /\ data = [k \in 0..(sz - 1) |-> NUL]
    /\ stream = <<>>
    /\ lock = "free"
    /\ sget = 0
    /\ line_buffer = [k \in 0..(LineBufferSize - 1) |-> NUL]
    /\ rl = [begin |-> 0, printed |-> 0]
    /\ jiffies = 0
    /\ pc = [d \in Drains |-> "idle"]
    /\ loc = [d \in Drains |-> NoLocals]
    /\ panicked = FALSE
    /\ upto = 0
    /\ lost = FALSE
    /\ win = [start |-> 0, printed |-> 0, denied |-> {}]
    /\ ev = NoEvent
    /\ dev = Unbound

LifeNext ==
    \/ Probe
    \/ Remove
    \/ ShortProducer /\ dev.added
    \/ CallNotifyReturned(Cpu0)
    \/ Dump(Cpu0)

LifeSpec == LifeInit /\ [][LifeNext]_vars

\* a producer that never has more than sz bytes reserved and not committed
BoundedProducer == Producer /\ U32(alloc' - put') <= sz

BoundedNext ==
    \/ BoundedProducer
    \/ CallNotifyReturned(Cpu0)
    \/ CallNotifyOther(Cpu0)
    \/ Dump(Cpu0)

BoundedSpec == Init /\ [][BoundedNext]_vars

\* the values the secure side may write into log->sz: up to twice what the
\* shared pages hold
SizeValues == 0..(2 * LogSize)

\* a ring in the shared pages whose size field and counters the secure side
\* sets as it likes, before and during a drain
SizeInit ==
    /\ sz \in SizeValues
    /\ base = 0
    /\ put \in SizeValues
    /\ alloc = put
    /\ data \in [0..(LogSize - 1) -> ProducerBytes]
    /\ stream = <<>>
    /\ lock = "free"
    /\ sget = 0
    /\ line_buffer = [k \in 0..(LineBufferSize - 1) |-> NUL]
    /\ rl = [begin |-> 0, printed |-> 0]
    /\ jiffies = 0
    /\ pc = [d \in Drains |-> "idle"]
    /\ loc = [d \in Drains |-> NoLocals]
    /\ panicked = FALSE
    /\ upto = 0
    /\ lost = FALSE
    /\ win = [start |-> 0, printed |-> 0, denied |-> {}]
    /\ ev = NoEvent
    /\ dev = Bound

SizeNext ==
    \/ \E n \in SizeValues : SetSize(n)
    \/ CallNotifyReturned(Cpu0)
    \/ Dump(Cpu0)

SizeSpec == SizeInit /\ [][SizeNext]_vars

\* the producer writes only while no drain is running
QuietNext ==
    \/ Producer /\ pc[Cpu0] = "idle"
    \/ CallNotifyReturned(Cpu0)
    \/ Dump(Cpu0)

QuietSpec == Init /\ [][QuietNext]_vars

\* the same, with the drain never suspended
FairQuietSpec == QuietSpec /\ WF_vars(Dump(Cpu0))

WrapNext == Producer \/ CallNotifyReturned(Cpu0) \/ Dump(Cpu0)

WrapSpec == WrapInit /\ [][WrapNext]_vars


(* ------------------------------ claims -------------------------------- *)
\* position in the producer's stream of the counter value g
Position(g) == (g - base) % Mod

\* the bytes the producer wrote at the counter positions [g, g + n)
Written(g, n) ==
    IF Position(g) + n <= Len(stream)
    THEN SubSeq(stream, Position(g) + 1, Position(g) + n)
    ELSE <<"unwritten">>

\* C1: every line a lock-serialised drain hands to dev_info is made of the
\* bytes the producer wrote at the counter positions [get, get + n), in
\* their order
C1_LineIsWhatProducerWrote ==
    ev.k = "info" => ev.txt = Written(ev.get, ev.n)


\* C2: an iteration that reads alloc with alloc - get > sz (u32) hands
\* nothing to the sink, leaves the rate limiter alone, sets the cursor to
\* alloc - sz and goes back to the top of the loop
C2_OverflowDiscardsAndResyncs ==
    [][\A d \in Drains :
         (pc[d] = "check" /\ pc'[d] # "check" /\ (alloc - loc[d].get) % Mod > sz)
         => /\ ev'.k = "err"
            /\ rl' = rl /\ win' = win /\ upto' = upto
            /\ loc'[d].get = (alloc - sz) % Mod
            /\ pc'[d] = "loop"]_vars

\* an overflow by more than one byte has been detected and recovered from
C2_Witness ==
    /\ ev.k = "err"
    /\ (alloc - ev.get) % Mod > sz + 1
    /\ loc[ev.d].get = (alloc - sz) % Mod

\* C3: whatever the counters hold, log_read_line reads data[] inside
\* [0, sz) and writes line_buffer[], terminator included, inside
\* [0, LineBufferSize)
C3_IndicesInBounds ==
    /\ ev.k = "copy" => (ev.di \in 0..(sz - 1) /\ ev.li \in 0..(LineBufferSize - 1))
    /\ ev.k = "term" => ev.li \in 0..(LineBufferSize - 1)

\* the last cell before the terminator is written while put is behind get
C3_Witness ==
    /\ ev.k = "copy"
    /\ ev.li = LineBufferSize - 2
    /\ sz > 1
    /\ (loc[Cpu0].put - loc[Cpu0].get) % Mod >= Half

\* the capacities that are powers of two
PowersOfTwo == {Pow2(k) : k \in 0..CtrBits}

\* C9: with a capacity that is no power of two the drain returns at once:
\* one WARN_ON, no local loaded from the ring, nothing printed, rate limiter
\* and s->get unchanged
C9_BadCapacitySkipsDrain ==
    [][\A d \in Drains :
         (pc[d] = "enter" /\ pc'[d] # "enter" /\ sz \notin PowersOfTwo)
         => /\ pc'[d] = "idle"
            /\ ev' = Did("warn", d)
            /\ loc'[d] = NoLocals
            /\ rl' = rl /\ win' = win /\ upto' = upto
            /\ sget' = sget
            /\ line_buffer' = line_buffer]_vars

\* a drain was skipped although committed bytes were waiting
C9_Witness == ev.k = "warn" /\ put # sget


\* a line was offered to the sink (printed, or refused by the rate limiter)
Offered == ev.k \in {"info", "drop"}

\* first position of the stream's line that holds position p
LineStart(p) ==
    CHOOSE q \in 0..p :
        /\ q = 0 \/ stream[q] = NL
        /\ \A r \in (q + 1)..p : stream[r] # NL

\* the positions, counted from 1, of the newlines at or after position p
NewlinesFrom(p) == {e \in (p + 1)..Len(stream) : stream[e] = NL}

\* the offered line [p, p + n) is a whole line of the stream whenever that
\* line ends in a newline and fits the scratch buffer
WholeLine(p, n) ==
    LET q == LineStart(p)
        E == NewlinesFrom(p)
    IN  \/ E = {}
        \/ LET e == CHOOSE x \in E : \A y \in E : x <= y
           IN  (e - q <= LineBufferSize - 1) => (p = q /\ p + n = e)

\* C4 as stated: while no overflow is detected, every line offered is the
\* next n bytes of the stream and newline-terminated lines that fit the
\* scratch buffer are offered whole
C4_Original ==
    (~lost /\ Offered)
    => /\ ev.rel = "next"
       /\ ev.txt = Written(ev.get, ev.n)
       /\ WholeLine(Position(ev.get), ev.n)

\* C4 as amended: while no overflow is detected, every line offered is the
\* next n bytes of the stream (each byte once, in order), it ends at its
\* first newline, at LineBufferSize - 1 bytes or at the value of put the
\* iteration read, and a drain returns only with every byte below the put it
\* read last offered
C4_OfferedOnceInOrder ==
    ~lost =>
        /\ Offered =>
            /\ ev.rel = "next"
            /\ ev.n >= 1
            /\ ev.txt = Written(ev.get, ev.n)
            /\ \A k \in 1..(ev.n - 1) : ev.txt[k] # NL
            /\ \/ ev.txt[ev.n] = NL
               \/ ev.n = LineBufferSize - 1
               \/ (ev.get + ev.n) % Mod = loc[ev.d].put
        /\ \A d \in Drains : pc[d] = "store" =>
            /\ loc[d].get = loc[d].put
            /\ Position(loc[d].get) = upto
        /\ ev.k = "ok" => Position(sget) = upto

\* the producer committed "a" and its newline one after the other, and the
\* newline was printed as a line of its own
C4_Witness ==
    /\ ~lost
    /\ ev.k = "info"
    /\ ev.txt = <<NL>>
    /\ Position(ev.get) = 1
    /\ stream[1] = "a"


\* C5: every call of trusty_dump_logs returns
C5_DrainTerminates == (pc[Cpu0] \in InDump) ~> (pc[Cpu0] = "idle")


\* the cooperative callers that are inside trusty_dump_logs
Draining == {d \in Callers : pc[d] \in InDump}

\* C6: at most one cooperative caller is inside trusty_dump_logs and it
\* holds s->lock from before the call until after it; a call notification
\* with another action touches neither the lock nor the consumer's state
C6_OneCooperativeDrain ==
    /\ [](/\ Cardinality(Draining) <= 1
          /\ \A d \in Draining : lock = d
          /\ lock \in Callers => pc[lock] \in InDump)
    /\ [][ev'.k = "done" =>
            UNCHANGED <<lock, pc, loc, sget, line_buffer, rl, upto, lost, win>>]_vars

\* one caller is in the copy loop with the lock held while the other one
\* gets a notification with another action
C6_Witness ==
    /\ pc["cpu0"] = "copy"
    /\ lock = "cpu0"
    /\ ev.k = "done"
    /\ ev.d = "cpu1"


\* C7: the panic notifier can always enter the drain and its drain can always
\* take its next step, whoever holds s->lock and for how long, and no step
\* of the panic thread changes s->lock
C7_PanicNeverWaitsForLock ==
    /\ [](/\ (~panicked /\ pc[Panic] = "idle") => ENABLED PanicNotify
          /\ pc[Panic] \in InDump => ENABLED Dump(Panic))
    /\ [][(pc'[Panic] # pc[Panic] \/ loc'[Panic] # loc[Panic])
            => lock' = lock]_vars

\* the panic drain has offered lines and returned while the cooperative
\* caller sat at the entry of its drain with the lock held
C7_Witness ==
    /\ ev = Did("ok", Panic)
    /\ lock = Cpu0
    /\ pc[Cpu0] = "enter"
    /\ upto > 0


\* the drains that are between their first write to s->line_buffer and the
\* dev_info that reads it
UsingLineBuffer == {d \in Drains : pc[d] \in {"copy", "check", "print"}}

\* C8: s->line_buffer is used by one drain at a time, the panic drain
\* included
C8_LineBufferOneDrainAtATime == Cardinality(UsingLineBuffer) <= 1


\* the clock is past the window that the ghost win follows
PastWindow == jiffies > win.start + Interval

\* C10: no window sees more than Burst lines printed, whichever trigger
\* offers them; a line is refused only in a window that has printed Burst
\* lines; a line offered when fewer were printed in the window, or when the
\* clock is past the window, is printed
C10_QuotaPerWindow ==
    /\ [](/\ win.printed <= Burst
          /\ ev.k = "drop" => (win.printed = Burst /\ ~PastWindow))
    /\ [][\A d \in Drains :
            (pc[d] = "print" /\ pc'[d] # "print"
               /\ (PastWindow \/ win.printed < Burst))
            => ev'.k = "info"]_vars

\* the cooperative drain used up the window, so a line of the panic drain was
\* refused
C10_Witness ==
    /\ ev.k = "drop"
    /\ ev.d = Panic
    /\ win.printed = Burst
    /\ pc[Cpu0] = "idle"


\* the counter value that the run which starts at 0 holds where this run
\* holds x
Twin(x) == (x - base) % Mod

\* the cell of data[] in which this run keeps what the run which starts at 0
\* keeps in cell k
TwinCell(k) == BitAnd(U32(k + base), U32(sz - 1))

\* C11: every step of a drain whose counters cross the sign change or the
\* wraparound does what the code computes from the counters of the run
\* which starts at 0: the same loop test and max_to_read, the same cell of
\* the ring read, the same overflow verdict, the same recovery jump and the
\* same advance of the cursor
C11_WrapLikeNoWrap ==
    [][\A d \in Drains :
        /\ (pc[d] = "loop" /\ pc'[d] # "loop") =>
             /\ (pc'[d] = "store") = (Twin(put) = Twin(loc[d].get))
             /\ pc'[d] = "copy" =>
                   loc'[d].max_to_read =
                       max_to_read_of(Int32(Twin(put)), Int32(Twin(loc[d].get)))
        /\ (pc[d] = "copy" /\ loc'[d].i = loc[d].i + 1) =>
             /\ ev'.di = TwinCell(data_index(Twin(loc[d].rget), mask_of(sz)))
             /\ Twin(loc'[d].rget) = Twin(loc[d].rget + 1)
        /\ (pc[d] = "check" /\ pc'[d] # "check") =>
             /\ (ev'.k = "err") = overflowed(Twin(alloc), Twin(loc[d].get), sz)
             /\ ev'.k = "err" =>
                   Twin(loc'[d].get) = resync(Twin(alloc), sz)
        /\ (pc[d] = "print" /\ pc'[d] # "print") =>
             /\ Twin(loc'[d].get) =
                   advance(Twin(loc[d].get), loc[d].read_chars)
             /\ ev'.txt = c_string(line_buffer, 0)
        /\ (pc[d] = "store" /\ pc'[d] # "store") =>
             Twin(sget') = Twin(loc[d].get)]_vars

\* a line of two bytes has been printed whose second byte lies past the
\* sign change or past the wraparound, in a run without overflow
C11_Witness ==
    /\ ev.k = "info"
    /\ ev.n = 2
    /\ base # 0
    /\ ev.get = U32(base + 1)
    /\ ev.txt = Written(ev.get, ev.n)
    /\ ~lost


\* the bytes between get and put, put - get taken as log_read_line takes it
\* (an int difference converted to size_t; more than any buffer when the
\* difference is negative)
Available(p, g) ==
    IF Int32(p - g) < 0 THEN Mod ELSE Int32(p - g)

\* C12: when log_read_line has returned n for the range [get, put) of a ring
\* that does not change meanwhile, line_buffer[0..n-1] are the bytes of the
\* ring at get .. get + n - 1, line_buffer[n] is the terminator, no byte
\* before the last is a newline, and n is put - get, LineBufferSize - 1 or
\* the length up to the first newline, whichever is least; so a run of
\* LineBufferSize - 1 bytes without newline is cut there and nothing after
\* it is taken
C12_ReadLineResult ==
    \A d \in Drains : pc[d] = "check" =>
        LET g == loc[d].get
            n == loc[d].read_chars
            avail == Available(loc[d].put, g)
        IN  /\ n \in 1..(LineBufferSize - 1)
            /\ n <= avail
            /\ line_buffer[n] = NUL
            /\ \A k \in 0..(n - 1) :
                 line_buffer[k] = data[BitAnd(U32(g + k), U32(sz - 1))]
            /\ \A k \in 0..(n - 2) : line_buffer[k] # NL
            /\ \/ line_buffer[n - 1] = NL
               \/ n = LineBufferSize - 1
               \/ n = avail
            /\ ev = Event("term", d, 0, 0, <<>>, "none", -1, n)

\* log_read_line has cut a run without newline at LineBufferSize - 1 bytes
\* although more bytes were committed
C12_Witness ==
    /\ pc[Cpu0] = "check"
    /\ loc[Cpu0].read_chars = LineBufferSize - 1
    /\ \A k \in 0..(LineBufferSize - 2) : line_buffer[k] # NL
    /\ Available(loc[Cpu0].put, loc[Cpu0].get) > LineBufferSize - 1
    /\ Available(loc[Cpu0].put, loc[Cpu0].get) < Mod


\* the stream holds at the counter positions [g, h) one line that ends in a
\* newline and fits the scratch buffer with its terminator
OneLine(g, h) ==
    LET n == Position(h) - Position(g)
    IN  /\ n \in 1..(LineBufferSize - 1)
        /\ Position(h) <= Len(stream)
        /\ stream[Position(h)] = NL
        /\ \A k \in (Position(g) + 1)..(Position(h) - 1) : stream[k] # NL

\* a drain that detected no overflow is about to return, and what was
\* committed and not consumed when it was called was one line
DrainedOneLine(d) ==
    /\ pc[d] = "store"
    /\ loc[d].overflows = 0
    /\ OneLine(sget, put)

\* C13 as stated: such a drain has offered exactly one line, whose text is
\* the bytes of the line before the newline, and leaves get equal to put
C13_Original ==
    \A d \in Drains : DrainedOneLine(d) =>
        /\ loc[d].lines = 1
        /\ loc[d].get = put
        /\ c_string(line_buffer, 0) =
             Written(sget, Position(put) - Position(sget) - 1)

\* C13 as amended: such a drain has offered exactly one line, whose text is
\* the bytes of the line with its newline, and leaves get equal to put
C13_OneLineWithNewline ==
    /\ \A d \in Drains : DrainedOneLine(d) =>
         /\ loc[d].lines = 1
         /\ loc[d].get = put
         /\ c_string(line_buffer, 0) =
              Written(sget, Position(put) - Position(sget))
    /\ ev.k = "ok" => sget = put

\* the line "a", newline has been drained by one call
C13_Witness ==
    /\ DrainedOneLine(Cpu0)
    /\ Written(sget, 2) = <<"a", NL>>
    /\ sz = 2


\* the producer has committed all it reserved, and more than sz bytes of it
\* since the last drain returned
Overrun == put = alloc /\ U32(alloc - sget) > sz

\* C14: a drain that is called when the producer has committed more than sz
\* bytes since the last one detects the overflow in its first iteration,
\* offers nothing of what it read, sets get to alloc - sz with one dev_err,
\* and returns with get = put after exactly one overflow
C14_OneOverflowPerOverrun ==
    /\ [](\A d \in Drains : (pc[d] = "store" /\ Overrun) =>
             (loc[d].overflows = 1 /\ loc[d].get = put))
    /\ [][\A d \in Drains :
            (pc[d] = "check" /\ pc'[d] # "check" /\ Overrun
               /\ loc[d].get = sget)
            => /\ ev'.k = "err"
               /\ loc'[d].get = U32(alloc - sz)
               /\ loc'[d].overflows = 1
               /\ loc'[d].lines = 0
               /\ upto' = upto]_vars

\* a ring of 2 bytes took 3 bytes without newline before the drain, which is
\* now about to return
C14_Witness ==
    /\ pc[Cpu0] = "store"
    /\ Overrun
    /\ sz = 2
    /\ U32(alloc - sget) = 3
    /\ \A k \in DOMAIN stream : stream[k] # NL
    /\ loc[Cpu0].overflows = 1


\* C15: the ring's pages are freed only if neither SMC_SC_SHARED_LOG_RM nor
\* trusty_reclaim_memory failed
C15_FreedOnlyAfterDeregistration ==
    dev.pages = "freed" => (dev.rm # "failed" /\ dev.reclaim # "failed")


\* C16: when an iteration of the drain reads alloc (line 94), the counters
\* it works with are ordered alloc >= put >= get, as distances from where
\* the counters started
C16_OrderedAtValidation ==
    \A d \in Drains : pc[d] = "check" =>
        /\ Position(alloc) >= Position(loc[d].put)
        /\ Position(loc[d].put) >= Position(loc[d].get)


\* C17: an iteration that passed the overflow check moves the cursor by the
\* 1 to LineBufferSize - 1 bytes that log_read_line returned, whether the
\* line is printed or refused, and no iteration reads a byte that a refused
\* line covered
C17_AdvanceAndNeverAgain ==
    [][\A d \in Drains :
        /\ (pc[d] = "print" /\ pc'[d] # "print") =>
             /\ loc[d].read_chars \in 1..(LineBufferSize - 1)
             /\ loc'[d].get = U32(loc[d].get + loc[d].read_chars)
             /\ ev'.k \in {"info", "drop"}
        /\ (pc[d] = "copy" /\ loc'[d].i = loc[d].i + 1) =>
             Position(loc[d].rget) \notin win.denied]_vars


\* C18: while the producer is stopped, a drain detects at most one overflow
\* and returns, and it returns with s->get equal to put unless the capacity
\* check stopped it
C18_QuietDrainSettles ==
    /\ [](\A d \in Drains : loc[d].overflows <= 1)
    /\ (pc[Cpu0] = "enter") ~> (ev.k = "warn" \/ (ev.k = "ok" /\ sget = put))


\* C19: with serialised drains and a producer that keeps alloc - put <= sz,
\* s->get never passes put, moves forward only and only in the step in which
\* a drain returns, and no printed line covers a byte that an earlier line
\* covered
C19_CursorMonotone ==
    /\ [](/\ Position(sget) <= Position(put)
          /\ \A d \in Drains : pc[d] \in InDump \ {"enter"} =>
                Position(sget) <= Position(loc[d].get)
          /\ ev.k = "info" => ev.rel # "again")
    /\ [][/\ Position(sget') >= Position(sget)
          /\ sget' # sget => ev'.k = "ok"]_vars

\* a drain that recovered from an overflow has returned and moved s->get up
\* to put
C19_Witness ==
    /\ ev.k = "ok"
    /\ lost
    /\ sget = put
    /\ Position(sget) > sz


\* C20: whatever the secure side writes into log->sz, and whenever, every
\* byte of data[] that a drain reads lies in the shared pages, and the mask,
\* the overflow threshold and the recovery jump of a drain are those of the
\* capacity that passed its check
C20_ReadsInsideSharedPages ==
    /\ [](/\ ev.k = "copy" => ev.di \in 0..(LogSize - 1)
          /\ \A d \in Drains : pc[d] = "copy" =>
                loc[d].mask = U32(loc[d].checked_sz - 1))
    /\ [][\A d \in Drains : (pc[d] = "check" /\ pc'[d] # "check") =>
            /\ (ev'.k = "err") = (U32(alloc - loc[d].get) > loc[d].checked_sz)
            /\ ev'.k = "err" =>
                  loc'[d].get = U32(alloc - loc[d].checked_sz)]_vars

====
